---- MODULE Spec2Model ----
(***************************************************************************)
(* Model of KhmerSyllableReorder (src/python/KhmerSyllableReorder.py).     *)
(* A text is a sequence of Unicode code points (naturals).  The class has  *)
(* no fields; the state is the argument, the locals and the return value   *)
(* of the last call of one of its three methods.                           *)
(***************************************************************************)
EXTENDS Integers, Sequences, FiniteSets

\* ------------------------------------------------------------------------
\* Character classes (lines 31-44).  Code points are written in decimal.
\* ------------------------------------------------------------------------
RO == 6042                                  \* U+179A
COENG == 6098                               \* U+17D2
ROBAT == 6092                               \* U+17CC

CONS(c) == c \in 6016..6050                 \* [U+1780-U+17A2]
INDEPVOWEL(c) == c \in 6051..6067           \* [U+17A3-U+17B3]
DEPVOWEL(c) == c \in 6070..6085             \* [U+17B6-U+17C5]
DIACRITIC(c) == c \in 6086..6097 \/ c = 6109     \* [U+17C6-U+17D1 U+17DD]
REGSHIFTER(c) == c \in {6089, 6090}         \* [U+17C9 U+17CA]
ZEROWIDTH(c) == c \in 8203..8205 \/ c = 173 \/ c = 8291
SPACING(c) == c \in {6087, 6088}            \* [U+17C7 U+17C8]
NONSPACING(c) == c = 6086 \/ c = 6091 \/ c \in 6093..6097 \/ c = 6109
CONS_OR_INDEPVOWEL(c) == CONS(c) \/ INDEPVOWEL(c)

\* COENG_RO = COENG + RO, used with re.match: the chunk starts with both
COENG_RO(c) == Len(c) >= 2 /\ c[1] = COENG /\ c[2] = RO

\* ------------------------------------------------------------------------
\* String helpers
\* ------------------------------------------------------------------------
\* ''.join(list)
RECURSIVE Join(_)
Join(l) == IF l = <<>> THEN <<>> ELSE Head(l) \o Join(Tail(l))

\* [c for c in list if c]
NonEmpty(l) == SelectSeq(l, LAMBDA c : c # <<>>)

\* str.replace(old, new) for a one-code-point old
RECURSIVE ReplaceChar(_, _, _)
ReplaceChar(s, old, new) ==
    IF s = <<>> THEN <<>>
    ELSE (IF Head(s) = old THEN new ELSE <<Head(s)>>)
             \o ReplaceChar(Tail(s), old, new)

\* str.replace(old, new) for a two-code-point old: leftmost occurrences,
\* not overlapping, the replacement is not rescanned
RECURSIVE ReplacePair(_, _, _, _)
ReplacePair(s, a, b, new) ==
    IF Len(s) < 2 THEN s
    ELSE IF s[1] = a /\ s[2] = b
         THEN new \o ReplacePair(SubSeq(s, 3, Len(s)), a, b, new)
         ELSE <<s[1]>> \o ReplacePair(Tail(s), a, b, new)

\* ------------------------------------------------------------------------
\* regularizeText (lines 142-160)
\* ------------------------------------------------------------------------
\* variant: U+17D8 expanded with U+17BB in the middle
regularizeTextVowel(text) ==
    LET t1 == ReplaceChar(text, 6056, <<6055, 6016>>)
        t2 == ReplaceChar(t1, 6051, <<6050>>)
        t3 == ReplaceChar(t2, 6052, <<6050, 6070>>)
        t4 == ReplaceChar(t3, 6066, <<6065>>)
        t5 == ReplaceChar(t4, 6068, <<>>)
        t6 == ReplaceChar(t5, 6069, <<>>)
        t7 == ReplaceChar(t6, 6109, <<6097>>)
        t8 == ReplaceChar(t7, 6099, <<6086>>)
    IN  ReplaceChar(t8, 6104, <<6100, 6075, 6100>>)

regularizeText(text) ==
    LET t1 == ReplaceChar(text, 6056, <<6055, 6016>>)   \* U+17A8
        t2 == ReplaceChar(t1, 6051, <<6050>>)           \* U+17A3
        t3 == ReplaceChar(t2, 6052, <<6050, 6070>>)     \* U+17A4
        t4 == ReplaceChar(t3, 6066, <<6065>>)           \* U+17B2
        t5 == ReplaceChar(t4, 6068, <<>>)               \* U+17B4
        t6 == ReplaceChar(t5, 6069, <<>>)               \* U+17B5
        t7 == ReplaceChar(t6, 6109, <<6097>>)           \* U+17DD
        t8 == ReplaceChar(t7, 6099, <<6086>>)           \* U+17D3
    IN  ReplaceChar(t8, 6104, <<6100, 6043, 6100>>)     \* U+17D8

\* ------------------------------------------------------------------------
\* SYLLPAT (lines 50-51) and the split of reorderText (line 73)
\* ------------------------------------------------------------------------
\* first index >= i of s that does not hold COENG (Len(s)+1 when none)
RECURSIVE SkipCoeng(_, _)
SkipCoeng(s, i) ==
    IF i <= Len(s) /\ s[i] = COENG THEN SkipCoeng(s, i + 1) ELSE i

\* the (?: COENG+ base | (depvowel|diacritic|zerowidth)+ )* part matched
\* from index i: the index of the last code point of the match
RECURSIVE SyllRest(_, _)
SyllRest(s, i) ==
    IF i > Len(s) THEN Len(s)
    ELSE IF s[i] = COENG
         THEN LET j == SkipCoeng(s, i)
              IN  IF j <= Len(s) /\ CONS_OR_INDEPVOWEL(s[j])
                  THEN SyllRest(s, j + 1)
                  ELSE i - 1
         ELSE IF DEPVOWEL(s[i]) \/ DIACRITIC(s[i]) \/ ZEROWIDTH(s[i])
              THEN SyllRest(s, i + 1)
              ELSE i - 1

\* length of the match of SYLLPAT at the start of s, 0 when there is none
SYLLPAT(s) ==
    IF s # <<>> /\ CONS_OR_INDEPVOWEL(s[1]) THEN SyllRest(s, 2) ELSE 0

\* re.split('(SYLLPAT)', text) without its empty pieces: the matches and
\* the stretches between them, in order
RECURSIVE SplitSyll(_, _)
SplitSyll(s, gap) ==
    IF s = <<>> THEN NonEmpty(<<gap>>)
    ELSE LET n == SYLLPAT(s)
         IN  IF n > 0
             THEN NonEmpty(<<gap>>) \o <<SubSeq(s, 1, n)>>
                      \o SplitSyll(SubSeq(s, n + 1, Len(s)), <<>>)
             ELSE SplitSyll(Tail(s), Append(gap, Head(s)))

\* ------------------------------------------------------------------------
\* CHUNKPAT (lines 57-58) and the split of reorderSyll (lines 89-90)
\* ------------------------------------------------------------------------
\* length of the match of CHUNKPAT at the start of s (s not empty), 0 when
\* there is none ('.' does not match a line feed)
CHUNKPAT(s) ==
    LET j == SkipCoeng(s, 1)
    IN  IF j > 1 /\ j <= Len(s) /\ CONS_OR_INDEPVOWEL(s[j])
        THEN IF j < Len(s) /\ REGSHIFTER(s[j + 1]) THEN j + 1 ELSE j
        ELSE IF s[1] = 10 THEN 0 ELSE 1

RECURSIVE SplitChunks(_, _)
SplitChunks(s, gap) ==
    IF s = <<>> THEN NonEmpty(<<gap>>)
    ELSE LET n == CHUNKPAT(s)
         IN  IF n > 0
             THEN NonEmpty(<<gap>>) \o <<SubSeq(s, 1, n)>>
                      \o SplitChunks(SubSeq(s, n + 1, Len(s)), <<>>)
             ELSE SplitChunks(Tail(s), Append(gap, Head(s)))

\* ------------------------------------------------------------------------
\* reorderSyll (lines 78-140)
\* ------------------------------------------------------------------------
\* line 87: the condition under which a syllable is reordered
\* variant: the test of the first code point left out
AppliesAnyStart(syll) == Len(syll) > 1

Applies(syll) == Len(syll) > 1 /\ CONS_OR_INDEPVOWEL(syll[1])

\* lines 99-112: the bucket of a chunk, tested on its first code point
Classify(c) ==
    IF DEPVOWEL(c[1]) THEN "dv"
    ELSE IF c[1] = COENG THEN "coeng"
    ELSE IF NONSPACING(c[1]) THEN "nonsp"
    ELSE IF SPACING(c[1]) THEN "sp"
    ELSE IF REGSHIFTER(c[1]) THEN "rs"
    ELSE IF c[1] = ROBAT THEN "robat"
    ELSE "none"

Bucket(chunks, kind) == SelectSeq(chunks, LAMBDA c : Classify(c) = kind)

\* lines 103-104: re.sub(COENG+, COENG, c)
RECURSIVE CollapseCoeng(_)
CollapseCoeng(c) ==
    IF Len(c) < 2 THEN c
    ELSE IF c[1] = COENG /\ c[2] = COENG THEN CollapseCoeng(Tail(c))
         ELSE <<c[1]>> \o CollapseCoeng(Tail(c))

CoengBucket(chunks) ==
    LET b == Bucket(chunks, "coeng")
    IN  [i \in 1..Len(b) |-> CollapseCoeng(b[i])]

\* lines 116-120: the loop over range(len(coeng) - 1); i is 1-based here
RECURSIVE RoLoop(_, _, _)
RoLoop(coeng, i, numCoeng) ==
    IF i > numCoeng THEN coeng
    ELSE IF coeng[i] # <<>> /\ COENG_RO(coeng[i])
         THEN RoLoop(Append([coeng EXCEPT ![i] = <<>>], coeng[i]),
                     i + 1, numCoeng)
         ELSE RoLoop(coeng, i + 1, numCoeng)

\* variant: the loop stops one entry earlier
RoReorderShort(coeng) == RoLoop(coeng, 1, Len(coeng) - 2)

RoReorder(coeng) == RoLoop(coeng, 1, Len(coeng) - 1)

\* variant: the spacing diacritics left out of the join
JoinBucketsNoSpacing(base, rs, robat, coeng, dv, nonsp, sp) ==
    <<base>> \o rs \o robat \o coeng \o dv \o nonsp

\* variant: the dependent vowels joined before the coeng chunks
JoinBucketsVowelsFirst(base, rs, robat, coeng, dv, nonsp, sp) ==
    <<base>> \o rs \o robat \o dv \o coeng \o nonsp \o sp

\* line 126
JoinBuckets(base, rs, robat, coeng, dv, nonsp, sp) ==
    <<base>> \o rs \o robat \o coeng \o dv \o nonsp \o sp

\* lines 128-130: the loop over range(1, len(chunks)); i is 1-based here
RECURSIVE DupLoop(_, _)
DupLoop(chunks, i) ==
    IF i > Len(chunks) THEN chunks
    ELSE IF chunks[i] = chunks[i - 1]
         THEN DupLoop([chunks EXCEPT ![i - 1] = <<>>], i + 1)
         ELSE DupLoop(chunks, i + 1)

\* variant: the first fusion writes U+17C1 instead of U+17BE
Fuse1WrongTarget(s) == ReplacePair(s, 6081, 6072, <<6081>>)

\* lines 135-137
Fuse1(s) == ReplacePair(s, 6081, 6072, <<6078>>)  \* U+17C1 U+17B8 -> U+17BE
Fuse2(s) == ReplacePair(s, 6072, 6081, <<6078>>)  \* U+17B8 U+17C1 -> U+17BE
Fuse3(s) == ReplacePair(s, 6081, 6070, <<6084>>)  \* U+17C1 U+17B6 -> U+17C4
\* variant: the first fusion left out
FuseAllNoFirst(s) == Fuse3(Fuse2(s))

FuseAll(s) == Fuse3(Fuse2(Fuse1(s)))

\* the locals of reorderSyll when line 87 holds
Locals(syll) ==
    LET base == <<syll[1]>>
        split == SplitChunks(Tail(syll), <<>>)
        coeng0 == CoengBucket(split)
        coeng1 == RoReorder(coeng0)
        joined == JoinBuckets(base, Bucket(split, "rs"),
                      Bucket(split, "robat"), coeng1, Bucket(split, "dv"),
                      Bucket(split, "nonsp"), Bucket(split, "sp"))
        kept == NonEmpty(DupLoop(joined, 2))
    IN  [coengIn |-> coeng0, coeng |-> coeng1, joined |-> joined,
         chunks |-> kept, syll |-> Join(kept)]

NoLocals ==
    [coengIn |-> <<>>, coeng |-> <<>>, joined |-> <<>>, chunks |-> <<>>,
     syll |-> <<>>]

reorderSyll(syll) ==
    IF Applies(syll) THEN FuseAll(Locals(syll).syll) ELSE syll

\* ------------------------------------------------------------------------
\* reorderText (lines 63-76)
\* ------------------------------------------------------------------------
reorderText(text) ==
    LET syll == SplitSyll(regularizeText(text), <<>>)
    IN  Join([i \in 1..Len(syll) |-> reorderSyll(syll[i])])

\* ------------------------------------------------------------------------
\* Inputs
\* ------------------------------------------------------------------------
MaxChunks == 3      \* units after the base of an input syllable
MaxLen == 3         \* code points of an input text
MaxPasses == 2      \* successive calls of reorderText on its own output

\* U+1780 KA and U+17A5 QI as base characters
SampleBases == {6016, 6053}

\* what SYLLPAT lets follow a base: coeng clusters on KA and RO (one with
\* doubled COENG, one with a register shifter), U+17C9, robat, the dependent
\* vowels U+17C1 U+17B8 U+17B6 (and the pair U+17C1 U+17B6), nikahit U+17C6,
\* reahmuk U+17C7, U+200B
SampleUnits ==
    { <<6098, 6016>>, <<6098, 6042>>, <<6098, 6098, 6016>>,
      <<6098, 6042, 6089>>, <<6089>>, <<6092>>, <<6081>>, <<6072>>,
      <<6070>>, <<6081, 6070>>, <<6086>>, <<6087>>, <<8203>> }

RECURSIVE Tails(_)
Tails(n) ==
    IF n = 0 THEN { <<>> }
    ELSE LET shorter == Tails(n - 1)
         IN  shorter \cup { t \o u : t \in shorter, u \in SampleUnits }

Syllables == { <<b>> \o t : b \in SampleBases, t \in Tails(MaxChunks) }

\* KA, COENG, U+17B6, U+200B, U+00AD, "a", " ", and the regularized
\* U+17D8, U+17B4, U+17A8
SampleCodePoints == {6016, 6098, 6070, 8203, 173, 97, 32, 6104, 6068, 6056}

Texts == UNION { [1..n -> SampleCodePoints] : n \in 0..MaxLen }

Inputs == Syllables \cup Texts

\* ------------------------------------------------------------------------
\* State: the last call, its argument, its locals and its return value
\* ------------------------------------------------------------------------
\* text: the input; op: the method called on it; out: what the last call
\* returned; pass: the number of reorderText calls made; prev: the argument
\* of a repeated reorderText call; the rest: the locals of reorderSyll
VARIABLES text, op, out, pass, prev, coengIn, coeng, joined, chunks, syll

vars == <<text, op, out, pass, prev, coengIn, coeng, joined, chunks, syll>>
locals == <<coengIn, coeng, joined, chunks, syll>>

Init ==
    /\ text \in Inputs
    /\ op = "none"
    /\ out = <<>>
    /\ pass = 0
    /\ prev = <<>>
    /\ coengIn = <<>>
    /\ coeng = <<>>
    /\ joined = <<>>
    /\ chunks = <<>>
    /\ syll = <<>>

CallRegularizeText ==
    /\ op = "none"
    /\ op' = "regularizeText"
    /\ out' = regularizeText(text)
    /\ UNCHANGED <<text, pass, prev, locals>>

CallReorderSyll ==
    /\ op = "none"
    /\ op' = "reorderSyll"
    /\ out' = reorderSyll(text)
    /\ LET l == IF Applies(text) THEN Locals(text) ELSE NoLocals
       IN  /\ coengIn' = l.coengIn
           /\ coeng' = l.coeng
           /\ joined' = l.joined
           /\ chunks' = l.chunks
           /\ syll' = l.syll
    /\ UNCHANGED <<text, pass, prev>>

CallReorderText ==
    /\ op = "none"
    /\ op' = "reorderText"
    /\ out' = reorderText(text)
    /\ pass' = 1
    /\ UNCHANGED <<text, prev, locals>>

\* reorderText applied to what reorderText returned
CallReorderTextAgain ==
    /\ op = "reorderText"
    /\ pass < MaxPasses
    /\ prev' = out
    /\ out' = reorderText(out)
    /\ pass' = pass + 1
    /\ UNCHANGED <<text, op, locals>>

Next ==
    \/ CallRegularizeText
    \/ CallReorderSyll
    \/ CallReorderText
    \/ CallReorderTextAgain

Spec == Init /\ [][Next]_vars

\* ------------------------------------------------------------------------
\* Vocabulary of the properties
\* ------------------------------------------------------------------------
\* reorderSyll was called on text and took the branch of line 87
Reordered == op = "reorderSyll" /\ Len(text) > 1 /\ CONS_OR_INDEPVOWEL(text[1])

\* s is one whole match of the syllable grammar
IsSyllable(s) == s # <<>> /\ SYLLPAT(s) = Len(s)

Count(s, c) == Cardinality({ i \in DOMAIN s : s[i] = c })
PairAt(s, i, a, b) == i >= 1 /\ i < Len(s) /\ s[i] = a /\ s[i + 1] = b
PairCount(s, a, b) == Cardinality({ i \in DOMAIN s : PairAt(s, i, a, b) })

\* one of the three pairs of lines 135-137 starts at index i of s
FusableAt(s, i) ==
    PairAt(s, i, 6081, 6072) \/ PairAt(s, i, 6072, 6081)
        \/ PairAt(s, i, 6081, 6070)
NoFusable(s) == \A i \in DOMAIN s : ~FusableAt(s, i)

\* the number of times each code point occurs
BagOf(s) == [c \in { s[i] : i \in DOMAIN s } |-> Count(s, c)]

\* a coeng cluster starts at index i of s: on RO, on another base
RoClusterAt(s, i) == PairAt(s, i, COENG, RO)
OtherClusterAt(s, i) ==
    /\ i >= 1 /\ i < Len(s) /\ s[i] = COENG
    /\ CONS_OR_INDEPVOWEL(s[i + 1]) /\ s[i + 1] # RO

\* the chunks of the input and of the string joined at line 133
TextChunks == SplitChunks(Tail(text), <<>>)
SyllChunks == SplitChunks(Tail(syll), <<>>)

\* ------------------------------------------------------------------------
\* Properties
\* ------------------------------------------------------------------------
\* C1: a second reorderText pass returns its argument unchanged, for every
\* input made of Khmer letters, marks and zero-width elements.
KhmerText(s) ==
    \A i \in DOMAIN s :
        \/ CONS_OR_INDEPVOWEL(s[i]) \/ DEPVOWEL(s[i]) \/ s[i] = COENG
        \/ DIACRITIC(s[i]) \/ ZEROWIDTH(s[i])
C1_Idempotent ==
    (op = "reorderText" /\ pass >= 2 /\ KhmerText(text)) => out = prev

\* C2: in the result of reorderSyll no coeng cluster on RO comes before a
\* coeng cluster on another consonant or independent vowel.
C2_RoLast ==
    Reordered =>
        \A i, j \in DOMAIN out :
            (i < j /\ RoClusterAt(out, i)) => ~OtherClusterAt(out, j)

\* C2 witness: a syllable with a cluster on RO before another cluster
C2_Witness ==
    /\ Reordered
    /\ IsSyllable(text)
    /\ \E i, j \in DOMAIN text :
           i < j /\ RoClusterAt(text, i) /\ OtherClusterAt(text, j)
    /\ \E i, j \in DOMAIN out :
           i < j /\ OtherClusterAt(out, i) /\ RoClusterAt(out, j)

\* C3: reorderText returns a text with no code point of the Khmer block
\* U+1780-U+17FF unchanged.
NoKhmer(s) == \A i \in DOMAIN s : s[i] \notin 6016..6143
C3_PassThrough == (op = "reorderText" /\ pass = 1 /\ NoKhmer(text)) => out = text

\* C3 witness: a text of letters and zero-width elements went through
C3_Witness ==
    /\ op = "reorderText" /\ pass = 1 /\ NoKhmer(text)
    /\ Len(text) >= 2
    /\ \E i \in DOMAIN text : ZEROWIDTH(text[i])
    /\ \E i \in DOMAIN text : ~ZEROWIDTH(text[i])
    /\ out = text

\* C4: reorderSyll keeps the multiset of code points of a syllable that
\* has no fusable vowel pair and no two equal neighbouring elements.
NoEqualNeighbours(l) == \A i \in DOMAIN l : i > 1 => l[i] # l[i - 1]
C4_ContentInvariant ==
    ( /\ op = "reorderSyll"
      /\ IsSyllable(text)
      /\ NoFusable(text)
      /\ NoEqualNeighbours(text)
      /\ NoEqualNeighbours(<<<<text[1]>>>> \o TextChunks) )
    => BagOf(out) = BagOf(text)

\* C4 as amended: reorderSyll keeps the multiset of code points of a
\* syllable that has no zero-width element and no doubled COENG, when no
\* chunk of the list joined at line 126 equals its predecessor and the
\* string joined at line 133 has no fusable vowel pair.
C4_Precondition ==
    /\ Reordered
    /\ IsSyllable(text)
    /\ \A i \in DOMAIN text : ~ZEROWIDTH(text[i])
    /\ \A i \in DOMAIN text : ~PairAt(text, i, COENG, COENG)
    /\ \A i \in DOMAIN joined :
           (i > 1 /\ joined[i] # <<>>) => joined[i] # joined[i - 1]
    /\ NoFusable(syll)
C4_ContentInvariantAmended == C4_Precondition => BagOf(out) = BagOf(text)

\* C4 witness: such a syllable with marks of four buckets, given out of order
C4_Witness ==
    /\ C4_Precondition
    /\ out # text
    /\ Len(Bucket(TextChunks, "sp")) >= 1
    /\ Len(coengIn) >= 1
    /\ Len(text) >= 5

\* C5: the result of reorderSyll has no U+17C1 directly followed by U+17B8;
\* every such pair of the joined string has become one U+17BE.
C5_VowelFusion ==
    Reordered =>
        /\ PairCount(out, 6081, 6072) = 0
        /\ Count(out, 6078) >= Count(syll, 6078) + PairCount(syll, 6081, 6072)

\* C5 witness: U+17C1 and U+17B8 apart in the input, joined and fused
C5_Witness ==
    /\ Reordered
    /\ PairCount(text, 6081, 6072) = 0
    /\ \E i, j \in DOMAIN text :
           i + 1 < j /\ text[i] = 6081 /\ text[j] = 6072
    /\ PairCount(syll, 6081, 6072) = 1
    /\ Count(out, 6078) = 1

\* C6: regularizeText replaces every U+17D8 by U+17D4 U+17BB U+17D4.
RECURSIVE ExpandBeyyal(_, _)
ExpandBeyyal(s, mid) ==
    IF s = <<>> THEN <<>>
    ELSE (IF Head(s) = 6104 THEN <<6100, mid, 6100>> ELSE <<Head(s)>>)
             \o ExpandBeyyal(Tail(s), mid)
\* no code point that lines 151-158 rewrite
OnlyBeyyal(s) ==
    \A i \in DOMAIN s :
        s[i] \notin {6056, 6051, 6052, 6066, 6068, 6069, 6109, 6099}
C6_Beyyal ==
    op = "regularizeText" =>
        /\ Count(out, 6104) = 0
        /\ OnlyBeyyal(text) => out = ExpandBeyyal(text, 6075)

\* C6 as amended: regularizeText replaces every U+17D8 by U+17D4 U+179B
\* U+17D4.
C6_BeyyalAmended ==
    op = "regularizeText" =>
        /\ Count(out, 6104) = 0
        /\ OnlyBeyyal(text) => out = ExpandBeyyal(text, 6043)

\* C6 witness: a text with U+17D8 twice and another code point
C6_Witness ==
    /\ op = "regularizeText"
    /\ OnlyBeyyal(text)
    /\ Count(text, 6104) = 2
    /\ Len(text) = 3
    /\ Len(out) = 7

\* C7: the RO step keeps the clusters on RO in their order and the other
\* clusters in theirs.
OnRo(l) == SelectSeq(l, LAMBDA c : COENG_RO(c))
NotOnRo(l) == SelectSeq(l, LAMBDA c : c # <<>> /\ ~COENG_RO(c))
C7_Stable ==
    Reordered =>
        /\ NotOnRo(coeng) = NotOnRo(coengIn)
        /\ OnRo(coeng) = OnRo(coengIn)

\* C8: the string reorderSyll joins before the fusions is the base, the
\* standalone register shifters, the robats, the coeng clusters with a
\* single COENG each, the dependent vowels, the non-spacing and the spacing
\* diacritics, in this order; the marks of each bucket keep the order they
\* had in the input.
Rank(c) ==
    CASE Classify(c) = "rs" -> 1
      [] Classify(c) = "robat" -> 2
      [] Classify(c) = "coeng" -> 3
      [] Classify(c) = "dv" -> 4
      [] Classify(c) = "nonsp" -> 5
      [] Classify(c) = "sp" -> 6
      [] OTHER -> 0
\* l without the elements that equal their successor
RECURSIVE DropRepeats(_)
DropRepeats(l) ==
    IF Len(l) < 2 THEN l
    ELSE IF l[1] = l[2] THEN DropRepeats(Tail(l))
         ELSE <<l[1]>> \o DropRepeats(Tail(l))
C8_CanonicalOrder ==
    (Reordered /\ IsSyllable(text)) =>
        /\ syll[1] = text[1]
        /\ \A i \in DOMAIN SyllChunks : Rank(SyllChunks[i]) > 0
        /\ \A i, j \in DOMAIN SyllChunks :
               i < j => Rank(SyllChunks[i]) <= Rank(SyllChunks[j])
        /\ \A i \in DOMAIN SyllChunks :
               Rank(SyllChunks[i]) = 3 =>
                   /\ Len(SyllChunks[i]) \in {2, 3}
                   /\ CONS_OR_INDEPVOWEL(SyllChunks[i][2])
        /\ \A kind \in {"rs", "robat", "dv", "nonsp", "sp"} :
               Bucket(SyllChunks, kind) = DropRepeats(Bucket(TextChunks, kind))

\* C8 witness: a syllable with a vowel, then a cluster, then a register
\* shifter
C8_Witness ==
    /\ Reordered
    /\ IsSyllable(text)
    /\ Len(TextChunks) = 3
    /\ Rank(TextChunks[1]) = 4
    /\ Rank(TextChunks[2]) = 3
    /\ Rank(TextChunks[3]) = 1
    /\ Len(SyllChunks) = 3
    /\ Rank(SyllChunks[1]) = 1

\* C9: in the list of chunks reorderSyll joins, no chunk equals the one
\* before it.
C9_NoRepeat == Reordered => NoEqualNeighbours(chunks)

\* C10: the three fusions applied to the joined string in any of the six
\* orders give what reorderSyll returns.
SixOrders(s) ==
    { Fuse3(Fuse2(Fuse1(s))), Fuse2(Fuse3(Fuse1(s))), Fuse3(Fuse1(Fuse2(s))),
      Fuse1(Fuse3(Fuse2(s))), Fuse2(Fuse1(Fuse3(s))), Fuse1(Fuse2(Fuse3(s))) }
C10_FusionOrder == Reordered => SixOrders(syll) = {out}

\* C10 as amended: when no two fusable pairs of the joined string share a
\* code point, the three fusions applied in any of the six orders give what
\* reorderSyll returns.
NoOverlap(s) == \A i \in DOMAIN s : ~(FusableAt(s, i) /\ FusableAt(s, i + 1))
C10_FusionOrderAmended ==
    (Reordered /\ NoOverlap(syll)) => SixOrders(syll) = {out}

\* C10 witness: a joined string with two fusable pairs of different kinds
C10_Witness ==
    /\ Reordered
    /\ NoOverlap(syll)
    /\ PairCount(syll, 6081, 6070) = 1
    /\ PairCount(syll, 6072, 6081) = 1
    /\ Len(out) = Len(syll) - 2

====
